---- MODULE Spec2Model ----
(***************************************************************************)
(* A model of src/src/data_cleaning.py: the sales-data cleaning pipeline   *)
(* (load_data, clean_column_names, strip_text_fields,                      *)
(* handle_missing_values, remove_invalid_rows, save_cleaned_data,          *)
(* clean_pipeline).                                                        *)
(*                                                                         *)
(* Text is a sequence of one-character strings.  A cell is a record        *)
(* [kind, s, n]: kind "na" is a missing value (NaN), kind "str" is a text  *)
(* value s, kind "num" is a number n (numbers are integers here).  A       *)
(* DataFrame is a record [columns, dtypes, data, index]: the column        *)
(* labels, the dtype of each column, the cells column by column            *)
(* (data[c][r]) and the row labels.                                        *)
(***************************************************************************)
EXTENDS Integers, Sequences, FiniteSets, TLC

VARIABLES pc, df, df_in, raw_exists, raw_csv, out_writable, cleaned_csv,
          exc, stdout, calls

vars == <<pc, df, df_in, raw_exists, raw_csv, out_writable, cleaned_csv,
          exc, stdout, calls>>

----------------------------------------------------------------------------
(* Bounds of the model *)

\* the most rows of an input table
MaxRows == 3

\* the longest generated column name of the column-name specification
MaxLen == 3

----------------------------------------------------------------------------
(* Text: the str methods the program uses *)

Whitespace == {" ", "\t"}

UpperCase == <<"A","B","C","D","E","F","G","H","I","J","K","L","M",
               "N","O","P","Q","R","S","T","U","V","W","X","Y","Z">>

LowerCase == <<"a","b","c","d","e","f","g","h","i","j","k","l","m",
               "n","o","p","q","r","s","t","u","v","w","x","y","z">>

IsUpper(ch) == \E i \in 1..26 : UpperCase[i] = ch

LowerChar(ch) ==
    IF IsUpper(ch) THEN LowerCase[CHOOSE i \in 1..26 : UpperCase[i] = ch]
    ELSE ch

\* str.lower()
str_lower(s) == [i \in 1..Len(s) |-> LowerChar(s[i])]

RECURSIVE str_lstrip(_)
str_lstrip(s) ==
    IF s # <<>> /\ Head(s) \in Whitespace THEN str_lstrip(Tail(s)) ELSE s

RECURSIVE str_rstrip(_)
str_rstrip(s) ==
    IF s # <<>> /\ s[Len(s)] \in Whitespace
    THEN str_rstrip(SubSeq(s, 1, Len(s) - 1))
    ELSE s

\* str.strip(): leading and trailing whitespace removed
str_strip(s) == str_rstrip(str_lstrip(s))

\* str.replace(pat, repl): every non-overlapping occurrence of the non-empty
\* literal pat, found left to right, replaced by repl
RECURSIVE str_replace(_, _, _)
str_replace(s, pat, repl) ==
    IF Len(s) < Len(pat) THEN s
    ELSE IF SubSeq(s, 1, Len(pat)) = pat
         THEN repl \o str_replace(SubSeq(s, Len(pat) + 1, Len(s)), pat, repl)
         ELSE <<Head(s)>> \o str_replace(Tail(s), pat, repl)

----------------------------------------------------------------------------
(* Cells and numbers *)

Na == [kind |-> "na", s |-> <<>>, n |-> 0]
Str(t) == [kind |-> "str", s |-> t, n |-> 0]
Num(k) == [kind |-> "num", s |-> <<>>, n |-> k]

isna(cell) == cell.kind = "na"

Digits == <<"0","1","2","3","4","5","6","7","8","9">>

IsDigit(ch) == \E i \in 1..10 : Digits[i] = ch

DigitVal(ch) == (CHOOSE i \in 1..10 : Digits[i] = ch) - 1

RECURSIVE DecimalVal(_)
DecimalVal(s) ==
    IF s = <<>> THEN 0
    ELSE 10 * DecimalVal(SubSeq(s, 1, Len(s) - 1)) + DigitVal(s[Len(s)])

IsDecimal(s) == s # <<>> /\ \A i \in 1..Len(s) : IsDigit(s[i])

\* pd.to_numeric(..., errors="coerce") on one value: a number stays, text
\* that reads as an optionally signed decimal integer (blanks around it
\* skipped) becomes that number, anything else becomes NaN
to_numeric(cell) ==
    IF cell.kind # "str" THEN cell
    ELSE LET t == str_strip(cell.s)
             signed == t # <<>> /\ Head(t) \in {"-", "+"}
             body == IF signed THEN Tail(t) ELSE t
         IN  IF ~IsDecimal(body) THEN Na
             ELSE IF signed /\ Head(t) = "-" THEN Num(0 - DecimalVal(body))
                  ELSE Num(DecimalVal(body))

----------------------------------------------------------------------------
(* DataFrames *)

NoFrame == [columns |-> <<>>, dtypes |-> <<>>, data |-> <<>>, index |-> <<>>]

NoFile == [written |-> FALSE, columns |-> <<>>, data |-> <<>>]

ncols(d) == Len(d.columns)
nrows(d) == Len(d.index)

\* the positions of the columns carrying a label
positions(d, label) == {c \in 1..ncols(d) : d.columns[c] = label}

\* `col in df.columns`
has_column(d, label) == positions(d, label) # {}

\* df[label] is a DataFrame, not a Series, when the label is not unique
is_frame(d, label) == Cardinality(positions(d, label)) > 1

\* df.select_dtypes(include=kinds).columns, as positions
select_dtypes(d, kinds) == {c \in 1..ncols(d) : d.dtypes[c] \in kinds}

\* the rows at the given positions, in their order
RECURSIVE positions_from(_, _, _)
positions_from(i, n, keep) ==
    IF i > n THEN <<>>
    ELSE (IF i \in keep THEN <<i>> ELSE <<>>) \o positions_from(i + 1, n, keep)

take_rows(d, keep) ==
    LET pos == positions_from(1, nrows(d), keep)
    IN  [d EXCEPT !.index = [k \in 1..Len(pos) |-> d.index[pos[k]]],
                  !.data = [c \in 1..ncols(d) |->
                               [k \in 1..Len(pos) |-> d.data[c][pos[k]]]]]

----------------------------------------------------------------------------
(* clean_column_names *)

\* NormalizeName with the call of .str.lower() left out
NormalizeName_no_lower(name) ==
    str_replace(str_replace(str_strip(name), <<" ">>, <<"_">>),
                <<"-">>, <<"_">>)

\* NormalizeName with the hyphen replaced by a space instead of an underscore
NormalizeName_hyphen_to_space(name) ==
    str_replace(str_replace(str_lower(str_strip(name)), <<" ">>, <<"_">>),
                <<"-">>, <<" ">>)

\* one label through .str.strip().str.lower().str.replace(" ", "_")
\* .str.replace("-", "_")
NormalizeName(name) ==
    str_replace(str_replace(str_lower(str_strip(name)), <<" ">>, <<"_">>),
                <<"-">>, <<"_">>)

clean_column_names_result(d) ==
    [d EXCEPT !.columns = [c \in 1..ncols(d) |-> NormalizeName(d.columns[c])]]

----------------------------------------------------------------------------
(* strip_text_fields *)

\* Series.str.strip() on one element: text is stripped, a missing value
\* stays missing, an element that is not text becomes missing
strip_cell(cell) == IF cell.kind = "str" THEN Str(str_strip(cell.s)) ELSE Na

\* the object columns whose label is not unique: df[col] is then a
\* DataFrame, which has no .str accessor (AttributeError)
unstrippable(d) ==
    {c \in select_dtypes(d, {"object"}) : is_frame(d, d.columns[c])}

\* the columns before position stop stripped; stop = ncols + 1 for all
strip_text_fields_upto(d, stop) ==
    [d EXCEPT !.data = [c \in 1..ncols(d) |->
        IF c < stop /\ c \in select_dtypes(d, {"object"})
        THEN [r \in 1..nrows(d) |-> strip_cell(d.data[c][r])]
        ELSE d.data[c]]]

strip_text_fields_result(d) == strip_text_fields_upto(d, ncols(d) + 1)

----------------------------------------------------------------------------
(* handle_missing_values *)

\* fillna_zero with the result of fillna thrown away
fillna_discarded(col) == col

\* fillna(0) on one column
fillna_zero(col) ==
    [r \in 1..Len(col) |-> IF isna(col[r]) THEN Num(0) ELSE col[r]]

\* fillna(method="ffill") on one column: a forward scan that carries the
\* last valid value
RECURSIVE ffill_scan(_, _, _)
ffill_scan(col, r, last) ==
    IF r > Len(col) THEN <<>>
    ELSE IF isna(col[r]) THEN <<last>> \o ffill_scan(col, r + 1, last)
         ELSE <<col[r]>> \o ffill_scan(col, r + 1, col[r])

\* ffill with a carry that is never renewed: the first valid value fills
\* every later gap
RECURSIVE ffill_stale_scan(_, _, _)
ffill_stale_scan(col, r, last) ==
    IF r > Len(col) THEN <<>>
    ELSE IF isna(col[r]) THEN <<last>> \o ffill_stale_scan(col, r + 1, last)
         ELSE <<col[r]>> \o
              ffill_stale_scan(col, r + 1, IF isna(last) THEN col[r] ELSE last)

ffill_stale(col) == ffill_stale_scan(col, 1, Na)

ffill(col) == ffill_scan(col, 1, Na)

fill_numeric(d) ==
    [d EXCEPT !.data = [c \in 1..ncols(d) |->
        IF c \in select_dtypes(d, {"int64", "float64"})
        THEN fillna_zero(d.data[c]) ELSE d.data[c]]]

\* fill_text with dropna in the place of fillna: the rows with a missing
\* text value are dropped
fill_text_dropna(d) ==
    take_rows(d, {r \in 1..nrows(d) :
        \A c \in select_dtypes(d, {"object"}) : ~isna(d.data[c][r])})

fill_text(d) ==
    [d EXCEPT !.data = [c \in 1..ncols(d) |->
        IF c \in select_dtypes(d, {"object"})
        THEN ffill(d.data[c]) ELSE d.data[c]]]

\* df[cols] = df[cols].fillna(...) with a label of cols that is not unique:
\* the selection holds more columns than the label names (ValueError)
unassignable(d, kinds) ==
    \E c \in select_dtypes(d, kinds) : is_frame(d, d.columns[c])

handle_missing_values_result(d) == fill_text(fill_numeric(d))

----------------------------------------------------------------------------
(* remove_invalid_rows *)

price == <<"p","r","i","c","e">>
quantity == <<"q","u","a","n","t","i","t","y">>
quanitity == <<"q","u","a","n","i","t","i","t","y">>

\* fix_typo with the renamed labels thrown away
fix_typo_discarded(d) == d

\* fix_typo renaming only a label that is quanitity as a whole
fix_typo_exact(d) ==
    [d EXCEPT !.columns =
        [c \in 1..ncols(d) |->
            IF d.columns[c] = quanitity THEN quantity ELSE d.columns[c]]]

\* df.columns.str.replace("quanitity", "quantity")
fix_typo(d) ==
    [d EXCEPT !.columns =
        [c \in 1..ncols(d) |-> str_replace(d.columns[c], quanitity, quantity)]]

\* the dtype pd.to_numeric gives a column
numeric_dtype(old, col) ==
    IF old \in {"int64", "float64"} THEN old
    ELSE IF \E r \in 1..Len(col) : isna(col[r]) THEN "float64" ELSE "int64"

\* df[col] = pd.to_numeric(df[col], errors="coerce"), if col is a column
coerce(d, label) ==
    LET conv(c) == [r \in 1..nrows(d) |-> to_numeric(d.data[c][r])]
    IN  [d EXCEPT
           !.data = [c \in 1..ncols(d) |->
                       IF d.columns[c] = label THEN conv(c) ELSE d.data[c]],
           !.dtypes = [c \in 1..ncols(d) |->
                       IF d.columns[c] = label
                       THEN numeric_dtype(d.dtypes[c], conv(c))
                       ELSE d.dtypes[c]]]

\* df.dropna(subset=[the labels among price, quantity that are columns])
dropna(d) ==
    take_rows(d, {r \in 1..nrows(d) :
        \A c \in 1..ncols(d) :
            d.columns[c] \in {price, quantity} => ~isna(d.data[c][r])})

\* NonNegative with the comparison turned around
NonNegative_flipped(cell) == cell.kind = "num" /\ cell.n <= 0

\* NonNegative with > in the place of >=
NonNegative_strict(cell) == cell.kind = "num" /\ cell.n > 0

\* one element of df[col] >= 0: a comparison with NaN is False
NonNegative(cell) == cell.kind = "num" /\ cell.n >= 0

\* df = df[df[col] >= 0], if col is a column
drop_negative(d, label) ==
    take_rows(d, {r \in 1..nrows(d) :
        \A c \in positions(d, label) : NonNegative(d.data[c][r])})

\* pd.to_numeric(df[col]) raises TypeError when df[col] is a DataFrame
uncoercible(d) ==
    \E label \in {price, quantity} : is_frame(fix_typo(d), label)

remove_invalid_rows_result(d) ==
    drop_negative(
        drop_negative(dropna(coerce(coerce(fix_typo(d), price), quantity)),
                      price),
        quantity)

----------------------------------------------------------------------------
(* save_cleaned_data *)

RECURSIVE decimal_text(_)
decimal_text(k) ==
    IF k < 10 THEN <<Digits[k + 1]>>
    ELSE decimal_text(k \div 10) \o <<Digits[(k % 10) + 1]>>

int_text(k) == IF k < 0 THEN <<"-">> \o decimal_text(0 - k) ELSE decimal_text(k)

\* one field of df.to_csv: a missing value is the empty field, a number of a
\* float64 column is written with its fraction
csv_field(dtype, cell) ==
    IF cell.kind = "na" THEN <<>>
    ELSE IF cell.kind = "str" THEN cell.s
         ELSE IF dtype = "float64" THEN int_text(cell.n) \o <<".", "0">>
              ELSE int_text(cell.n)

\* df.to_csv(output_path, index=False): the header and the fields, no index
to_csv(d) ==
    [written |-> TRUE,
     columns |-> d.columns,
     data |-> [c \in 1..ncols(d) |->
                 [r \in 1..nrows(d) |-> csv_field(d.dtypes[c], d.data[c][r])]]]

----------------------------------------------------------------------------
(* clean_pipeline: the order of the calls *)

StepOrder ==
    <<"load_data", "clean_column_names", "strip_text_fields",
      "handle_missing_values", "remove_invalid_rows", "save_cleaned_data">>

\* next_step with strip_text_fields and handle_missing_values exchanged
next_step_swapped(step) ==
    LET order == <<"load_data", "clean_column_names", "handle_missing_values",
                   "strip_text_fields", "remove_invalid_rows",
                   "save_cleaned_data">>
        i == CHOOSE k \in 1..Len(order) : order[k] = step
    IN  IF i < Len(order) THEN order[i + 1] ELSE "finish"

\* the statement of clean_pipeline that follows the call of a step
next_step(step) ==
    LET i == CHOOSE k \in 1..Len(StepOrder) : StepOrder[k] = step
    IN  IF i < Len(StepOrder) THEN StepOrder[i + 1] ELSE "finish"

\* an exception propagates out of clean_pipeline: nothing after it runs
Raise(e) == pc' = "raised" /\ exc' = e

Return(step) == pc' = next_step(step) /\ exc' = exc

Call(step) == pc = step /\ calls' = Append(calls, step) /\ df_in' = df

Env == UNCHANGED <<raw_exists, raw_csv, out_writable>>

load_data ==
    /\ Call("load_data")
    /\ IF ~raw_exists
       THEN /\ Raise("FileNotFoundError")
            /\ UNCHANGED <<df, stdout>>
       ELSE /\ df' = raw_csv
            /\ stdout' = Append(stdout, "Loaded data")
            /\ Return("load_data")
    /\ UNCHANGED cleaned_csv
    /\ Env

clean_column_names ==
    /\ Call("clean_column_names")
    /\ df' = clean_column_names_result(df)
    /\ stdout' = Append(stdout, "Standardized column names.")
    /\ Return("clean_column_names")
    /\ UNCHANGED cleaned_csv
    /\ Env

strip_text_fields ==
    /\ Call("strip_text_fields")
    /\ IF unstrippable(df) # {}
       THEN /\ df' = strip_text_fields_upto(df,
                        CHOOSE c \in unstrippable(df) :
                            \A o \in unstrippable(df) : c <= o)
            /\ Raise("AttributeError")
            /\ UNCHANGED stdout
       ELSE /\ df' = strip_text_fields_result(df)
            /\ stdout' = Append(stdout, "Stripped whitespace from text fields.")
            /\ Return("strip_text_fields")
    /\ UNCHANGED cleaned_csv
    /\ Env

handle_missing_values ==
    /\ Call("handle_missing_values")
    /\ IF unassignable(df, {"int64", "float64"})
       THEN /\ Raise("ValueError")
            /\ UNCHANGED <<df, stdout>>
       ELSE IF unassignable(df, {"object"})
       THEN /\ df' = fill_numeric(df)
            /\ Raise("ValueError")
            /\ UNCHANGED stdout
       ELSE /\ df' = handle_missing_values_result(df)
            /\ stdout' = Append(stdout, "Handled missing numeric and text values.")
            /\ Return("handle_missing_values")
    /\ UNCHANGED cleaned_csv
    /\ Env

remove_invalid_rows ==
    /\ Call("remove_invalid_rows")
    /\ IF uncoercible(df)
       THEN /\ df' = IF is_frame(fix_typo(df), price)
                     THEN fix_typo(df)
                     ELSE coerce(fix_typo(df), price)
            /\ Raise("TypeError")
            /\ UNCHANGED stdout
       ELSE /\ df' = remove_invalid_rows_result(df)
            /\ stdout' = Append(stdout, "Removed invalid rows (negative price/quantity).")
            /\ Return("remove_invalid_rows")
    /\ UNCHANGED cleaned_csv
    /\ Env

save_cleaned_data ==
    /\ Call("save_cleaned_data")
    /\ IF ~out_writable
       THEN /\ Raise("OSError")
            /\ UNCHANGED <<cleaned_csv, stdout>>
       ELSE /\ cleaned_csv' = to_csv(df)
            /\ stdout' = Append(stdout, "Saved cleaned data")
            /\ Return("save_cleaned_data")
    /\ UNCHANGED df
    /\ Env

\* the last two statements of clean_pipeline
clean_pipeline_finish ==
    /\ pc = "finish"
    /\ pc' = "done"
    /\ stdout' = Append(Append(stdout, "Cleaning pipeline finished successfully!"),
                        "df.head()")
    /\ UNCHANGED <<df, df_in, cleaned_csv, exc, calls>>
    /\ Env

----------------------------------------------------------------------------
(* The input tables *)

\* the second row bound: the most rows of the raw file of a pipeline run
MaxFileRows == 2

\* the headers of the raw files of the pipeline runs
FileSchemas ==
    { [columns |-> <<<<" ","U","n","i","t"," ","P","r","i","c","e"," ">>, <<"Q","u","a","n","i","t","i","t","y">>>>,
      dtypes |-> <<"float64", "object">>],
      [columns |-> <<<<"P","r","i","c","e">>, <<"q","u","a","n","t","i","t","y">>>>,
      dtypes |-> <<"object", "int64">>],
      [columns |-> <<<<"p","r","i","c","e">>, <<"P","r","i","c","e">>>>,
      dtypes |-> <<"float64", "int64">>],
      [columns |-> <<<<"I","t","e","m">>, <<"i","t","e","m">>>>,
      dtypes |-> <<"object", "int64">>],
      [columns |-> <<<<"q","u","a","n","i","t","i","t","y">>, <<"Q","u","a","n","t","i","t","y">>>>,
      dtypes |-> <<"int64", "object">>],
      [columns |-> <<<<"I","t","e","m","-","N","a","m","e">>>>,
      dtypes |-> <<"object">>] }

FileCells(dtype) ==
    IF dtype = "object" THEN {Na, Str(<<" ","5"," ">>), Str(<<"-","1">>), Str(<<"a","b","c">>)}
    ELSE IF dtype = "float64" THEN {Na, Num(-1), Num(2)}
         ELSE {Num(-1), Num(0)}

\* the tables given to remove_invalid_rows alone
FilterSchemas ==
    { [columns |-> <<<<"p","r","i","c","e">>, <<"q","u","a","n","t","i","t","y">>>>,
      dtypes |-> <<"object", "object">>],
      [columns |-> <<<<"p","r","i","c","e">>, <<"q","u","a","n","t","i","t","y">>>>,
      dtypes |-> <<"float64", "int64">>],
      [columns |-> <<<<"q","u","a","n","i","t","i","t","y">>, <<"p","r","i","c","e">>>>,
      dtypes |-> <<"object", "int64">>],
      [columns |-> <<<<"q","u","a","n","i","t","i","t","y">>>>,
      dtypes |-> <<"float64">>],
      [columns |-> <<<<"i","t","e","m">>>>,
      dtypes |-> <<"object">>],
      [columns |-> <<<<"q","u","a","n","i","t","i","t","y","_","s","o","l","d">>, <<"p","r","i","c","e">>>>,
      dtypes |-> <<"int64", "float64">>],
      [columns |-> <<<<"q","u","a","n","i","t","i","t","y">>, <<"q","u","a","n","t","i","t","y">>>>,
      dtypes |-> <<"object", "int64">>],
      [columns |-> <<<<"i","t","e","m">>, <<"q","u","a","n","t","i","t","y">>>>,
      dtypes |-> <<"object", "float64">>] }

FilterCells(dtype) ==
    IF dtype = "object" THEN {Na, Str(<<"a","b","c">>), Str(<<"-","1">>), Str(<<"0">>)}
    ELSE IF dtype = "float64" THEN {Na, Num(-1), Num(0), Num(2)}
         ELSE {Num(-1), Num(0), Num(2)}

\* the rows (price "10", quantity "-1"), ("abc", "5"), ("20", "3")
FilterExample ==
    [columns |-> <<price, quantity>>, dtypes |-> <<"object", "object">>,
     data |-> << <<Str(<<"1","0">>), Str(<<"a","b","c">>), Str(<<"2","0">>)>>,
                 <<Str(<<"-","1">>), Str(<<"5">>), Str(<<"3">>)>> >>,
     index |-> <<0, 1, 2>>]

\* the tables given to handle_missing_values alone
FillSchemas ==
    { [columns |-> <<<<"i","t","e","m">>>>,
      dtypes |-> <<"object">>],
      [columns |-> <<<<"p","r","i","c","e">>>>,
      dtypes |-> <<"float64">>],
      [columns |-> <<<<"q","u","a","n","t","i","t","y">>>>,
      dtypes |-> <<"int64">>],
      [columns |-> <<<<"i","t","e","m">>, <<"p","r","i","c","e">>>>,
      dtypes |-> <<"object", "float64">>],
      [columns |-> <<<<"i","t","e","m">>, <<"c","i","t","y">>>>,
      dtypes |-> <<"object", "object">>] }

FillCells(dtype) ==
    IF dtype = "object" THEN {Na, Str(<<"A">>), Str(<<"B">>)}
    ELSE IF dtype = "float64" THEN {Na, Num(-1), Num(2)}
         ELSE {Num(0), Num(2)}

\* the text column [None, "A", None, "B"]
FillExample ==
    [columns |-> <<<<"i","t","e","m">>>>, dtypes |-> <<"object">>,
     data |-> << <<Na, Str(<<"A">>), Na, Str(<<"B">>)>> >>,
     index |-> <<0, 1, 2, 3>>]

\* the cells a column of a dtype may hold in the inputs of a specification
InputCells(which, dtype) ==
    IF which = "file" THEN FileCells(dtype)
    ELSE IF which = "filter" THEN FilterCells(dtype)
         ELSE FillCells(dtype)

\* d is a frame of one of the schemas [columns, dtypes] (one or two columns)
\* with at most the given number of rows, the cells of a column drawn from
\* InputCells(which, its dtype); read_csv labels the rows 0 .. n-1
IsInput(d, schemas, rows, which) ==
    \E sch \in schemas, n \in 0..rows :
        \E a \in [1..n -> InputCells(which, sch.dtypes[1])],
           b \in IF Len(sch.columns) > 1
                 THEN [1..n -> InputCells(which, sch.dtypes[2])] ELSE {<<>>} :
            d = [columns |-> sch.columns,
                 dtypes |-> sch.dtypes,
                 data |-> IF Len(sch.columns) > 1 THEN <<a, b>> ELSE <<a>>,
                 index |-> [i \in 1..n |-> i - 1]]

\* the characters of the generated column names
NameAlphabet == {" ", "\t", "-", "_", "A", "a"}

Names == UNION {[1..n -> NameAlphabet] : n \in 1..MaxLen}

\* the headers given to clean_column_names alone
NameFrames ==
    {[columns |-> <<name>>, dtypes |-> <<"object">>, data |-> << <<>> >>,
      index |-> <<>>] : name \in Names}
    \cup
    {[columns |-> <<<<" ","U","n","i","t"," ","P","r","i","c","e"," ">>, <<"I","t","e","m","-","N","a","m","e">>, <<"Q","T","Y">>>>,
      dtypes |-> <<"float64", "object", "int64">>,
      data |-> << <<Num(2)>>, <<Str(<<" ","a"," ">>)>>, <<Num(0)>> >>,
      index |-> <<0>>]}

----------------------------------------------------------------------------
(* Specifications *)

\* the state at the call of one step
InitCall(step) ==
    /\ pc = step
    /\ df_in = NoFrame
    /\ raw_exists = TRUE
    /\ raw_csv = NoFrame
    /\ out_writable = TRUE
    /\ cleaned_csv = NoFile
    /\ exc = "none"
    /\ stdout = <<>>
    /\ calls = <<>>

\* a run of clean_pipeline: the raw file may not exist, the output path may
\* not be writable
Init ==
    /\ pc = "load_data"
    /\ df = NoFrame
    /\ df_in = NoFrame
    /\ raw_exists \in BOOLEAN
    /\ IsInput(raw_csv, FileSchemas, MaxFileRows, "file")
    /\ out_writable \in BOOLEAN
    /\ cleaned_csv = NoFile
    /\ exc = "none"
    /\ stdout = <<>>
    /\ calls = <<>>

Next ==
    \/ load_data
    \/ clean_column_names
    \/ strip_text_fields
    \/ handle_missing_values
    \/ remove_invalid_rows
    \/ save_cleaned_data
    \/ clean_pipeline_finish

Spec == Init /\ [][Next]_vars

InitNames == InitCall("clean_column_names") /\ df \in NameFrames
NextNames == clean_column_names
SpecNames == InitNames /\ [][NextNames]_vars

InitFill ==
    /\ InitCall("handle_missing_values")
    /\ df = FillExample
       \/ IsInput(df, FillSchemas, MaxRows, "fill")
NextFill == handle_missing_values
SpecFill == InitFill /\ [][NextFill]_vars

InitFilter ==
    /\ InitCall("remove_invalid_rows")
    /\ df = FilterExample
       \/ IsInput(df, FilterSchemas, MaxRows, "filter")
NextFilter == remove_invalid_rows
SpecFilter == InitFilter /\ [][NextFilter]_vars

----------------------------------------------------------------------------
(* Properties *)

Last(q) == q[Len(q)]

Range(q) == {q[i] : i \in 1..Len(q)}

Max(S) == CHOOSE x \in S : \A y \in S : y <= x
Min(S) == CHOOSE x \in S : \A y \in S : x <= y

\* the step was the last one called, and it returned
Returned(step) == calls # <<>> /\ Last(calls) = step /\ exc = "none"

\* the step was the last one called, whether it returned or raised
Acted(step) == calls # <<>> /\ Last(calls) = step

IsNumeric(dtype) == dtype \in {"int64", "float64"}

\* the input columns that remove_invalid_rows treats as price or quantity
Designated(c) == df_in.columns[c] \in {price, quantity, quanitity}

\* a value that parses as a number and is >= 0
ParsesNonNegative(cell) ==
    LET v == to_numeric(cell) IN v.kind = "num" /\ v.n >= 0

\* C1: in the table remove_invalid_rows returns, every value of a column
\* named price or quantity is present, numeric and >= 0
C1_RowsValid ==
    Returned("remove_invalid_rows") =>
        \A c \in 1..ncols(df) :
            df.columns[c] \in {price, quantity} =>
                /\ IsNumeric(df.dtypes[c])
                /\ Len(df.data[c]) = nrows(df)
                /\ \A r \in 1..nrows(df) :
                       df.data[c][r].kind = "num" /\ df.data[c][r].n >= 0

C1_Witness ==
    /\ Returned("remove_invalid_rows")
    /\ has_column(df, price) /\ has_column(df, quantity)
    /\ df_in.dtypes = <<"object", "object">>
    /\ nrows(df) >= 1
    /\ nrows(df) < nrows(df_in)

\* the positions of the input rows remove_invalid_rows must keep
KeptRows ==
    {r \in 1..nrows(df_in) :
        \A c \in 1..ncols(df_in) :
            Designated(c) => ParsesNonNegative(df_in.data[c][r])}

\* C2: remove_invalid_rows keeps exactly the input rows whose value in every
\* present column among price and quantity (after the typo correction)
\* parses as a number >= 0, in their order, the designated values converted
\* to numbers and the other values as they were; without such a column it
\* drops no row
C2_KeepsExactlyValidRows ==
    Returned("remove_invalid_rows") =>
        /\ Range(df.index) = {df_in.index[r] : r \in KeptRows}
        /\ Len(df.index) = Cardinality(KeptRows)
        /\ \A k, l \in 1..Len(df.index) : k < l => df.index[k] < df.index[l]
        /\ \A k \in 1..Len(df.index) :
              \A r \in 1..nrows(df_in) :
                  df_in.index[r] = df.index[k] =>
                      \A c \in 1..ncols(df_in) :
                          df.data[c][k] = IF Designated(c)
                                          THEN to_numeric(df_in.data[c][r])
                                          ELSE df_in.data[c][r]
        /\ (\A c \in 1..ncols(df_in) : ~Designated(c)) => df.index = df_in.index

C2_Witness ==
    /\ Returned("remove_invalid_rows")
    /\ df_in = FilterExample
    /\ df.index = <<2>>
    /\ df.data = << <<Num(20)>>, <<Num(3)>> >>

\* C3: after handle_missing_values, in every text column a cell that was
\* missing holds the value of the nearest non-missing cell above it, or is
\* still missing when there is none; a cell that was not missing is unchanged
C3_ForwardFill ==
    Returned("handle_missing_values") =>
        \A c \in 1..ncols(df_in) :
            df_in.dtypes[c] = "object" =>
                /\ Len(df.data[c]) = Len(df_in.data[c])
                /\ \A r \in 1..nrows(df_in) :
                      LET col == df_in.data[c]
                          above == {j \in 1..(r - 1) : ~isna(col[j])}
                      IN  IF ~isna(col[r]) THEN df.data[c][r] = col[r]
                          ELSE IF above = {} THEN isna(df.data[c][r])
                               ELSE df.data[c][r] = col[Max(above)]

C3_Witness ==
    /\ Returned("handle_missing_values")
    /\ df_in = FillExample
    /\ df.data = << <<Na, Str(<<"A">>), Str(<<"A">>), Str(<<"B">>)>> >>

\* C4: after handle_missing_values no numeric column holds a missing value:
\* a cell that was missing holds 0, a cell that was not is unchanged
C4_NumericFilled ==
    Returned("handle_missing_values") =>
        \A c \in 1..ncols(df_in) :
            IsNumeric(df_in.dtypes[c]) =>
                /\ Len(df.data[c]) = Len(df_in.data[c])
                /\ \A r \in 1..nrows(df_in) :
                      /\ ~isna(df.data[c][r])
                      /\ df.data[c][r] = IF isna(df_in.data[c][r]) THEN Num(0)
                                         ELSE df_in.data[c][r]

C4_Witness ==
    /\ Returned("handle_missing_values")
    /\ \E c \in 1..ncols(df_in) :
          /\ df_in.dtypes[c] = "float64"
          /\ \E r, q \in 1..nrows(df_in) :
                /\ isna(df_in.data[c][r]) /\ df.data[c][r] = Num(0)
                /\ df_in.data[c][q] = Num(2) /\ df.data[c][q] = Num(2)

\* out is the label trimmed, lowercased, every space and hyphen an underscore
Normalized(in, out) ==
    LET ink == {i \in 1..Len(in) : in[i] \notin Whitespace}
    IN  IF ink = {} THEN out = <<>>
        ELSE /\ Len(out) = Max(ink) - Min(ink) + 1
             /\ \A k \in 1..Len(out) :
                   LET ch == in[Min(ink) + k - 1]
                   IN  out[k] = IF ch \in {" ", "-"} THEN "_" ELSE LowerChar(ch)

\* C5: every column name clean_column_names produces has no uppercase
\* letter, no leading or trailing whitespace, no space and no hyphen, and is
\* the input name trimmed, lowercased, with every space and hyphen replaced
\* by an underscore
C5_NamesNormalized ==
    Returned("clean_column_names") =>
        /\ ncols(df) = ncols(df_in)
        /\ \A c \in 1..ncols(df) :
              LET out == df.columns[c]
              IN  /\ Normalized(df_in.columns[c], out)
                  /\ \A k \in 1..Len(out) :
                        ~IsUpper(out[k]) /\ out[k] \notin {" ", "-"}
                  /\ out # <<>> =>
                        out[1] \notin Whitespace /\ out[Len(out)] \notin Whitespace

C5_Witness ==
    /\ Returned("clean_column_names")
    /\ df_in.columns[1] = <<" ","U","n","i","t"," ","P","r","i","c","e"," ">>
    /\ df.columns[1] = <<"u","n","i","t","_","p","r","i","c","e">>

\* C6: clean_column_names applied to the names it produced gives the same
\* names in the same order
C6_NamesIdempotent ==
    Returned("clean_column_names") =>
        clean_column_names_result(df).columns = df.columns

C6_Witness ==
    /\ Returned("clean_column_names")
    /\ ncols(df) = 3
    /\ \A c \in 1..3 : df.columns[c] # df_in.columns[c]
    /\ clean_column_names_result(df).columns = df.columns

\* the order of the steps the design documents
DocumentedOrder ==
    <<"load_data", "clean_column_names", "strip_text_fields",
      "handle_missing_values", "remove_invalid_rows", "save_cleaned_data">>

IsPrefix(p, q) == Len(p) <= Len(q) /\ SubSeq(q, 1, Len(p)) = p

\* C7: the steps of a run are called in the documented order, each at most
\* once and none skipped; once a step has raised nothing more runs; when
\* load_data raises FileNotFoundError nothing is written; the success message
\* is printed only after save_cleaned_data has written the file
C7_PipelineOrder ==
    /\ IsPrefix(calls, DocumentedOrder)
    /\ exc # "none" => pc = "raised" /\ ~ENABLED Next
    /\ exc = "FileNotFoundError" =>
          calls = <<"load_data">> /\ cleaned_csv = NoFile
    /\ cleaned_csv.written => calls = DocumentedOrder /\ exc = "none"
    /\ "Cleaning pipeline finished successfully!" \in Range(stdout) =>
          /\ calls = DocumentedOrder
          /\ cleaned_csv.written
          /\ "Saved cleaned data" \in Range(stdout)
    /\ pc = "done" =>
          "Cleaning pipeline finished successfully!" \in Range(stdout)

C7_Witness ==
    /\ pc = "done"
    /\ calls = DocumentedOrder
    /\ cleaned_csv.written
    /\ nrows(raw_csv) = 2
    /\ Len(cleaned_csv.data[1]) = 1

IsInk(ch) == ch \notin Whitespace

\* two cells that differ at most in the whitespace of their text
SameButBlanks(x, y) ==
    /\ x.kind = y.kind
    /\ x.n = y.n
    /\ SelectSeq(x.s, IsInk) = SelectSeq(y.s, IsInk)

\* C8: clean_column_names, strip_text_fields and handle_missing_values leave
\* the rows and their order as they were (and clean_column_names every
\* cell); remove_invalid_rows alone changes the row count, and never
\* increases it
C8_RowCountFrame ==
    /\ Returned("clean_column_names") =>
          df.index = df_in.index /\ df.data = df_in.data
    /\ Returned("strip_text_fields") =>
          /\ df.index = df_in.index
          /\ \A c \in 1..ncols(df_in) :
                /\ Len(df.data[c]) = nrows(df_in)
                /\ \A r \in 1..nrows(df_in) :
                      SameButBlanks(df.data[c][r], df_in.data[c][r])
    /\ Returned("handle_missing_values") =>
          /\ df.index = df_in.index
          /\ \A c \in 1..ncols(df_in) :
                /\ Len(df.data[c]) = nrows(df_in)
                /\ \A r \in 1..nrows(df_in) :
                      ~isna(df_in.data[c][r]) => df.data[c][r] = df_in.data[c][r]
    /\ Returned("remove_invalid_rows") =>
          /\ nrows(df) <= nrows(df_in)
          /\ Range(df.index) \subseteq Range(df_in.index)
    /\ Returned("save_cleaned_data") => df = df_in

C8_Witness ==
    /\ Returned("remove_invalid_rows")
    /\ nrows(df_in) = 2
    /\ nrows(df) = 1
    /\ \E c \in 1..ncols(df_in) : \E r \in 1..2 : isna(raw_csv.data[c][r])

\* C9: a column named quanitity is renamed to quantity before the coercion,
\* so the returned table has at its place a numeric quantity column whose
\* values are all >= 0, and no input row whose value there is unparseable,
\* missing or negative is left
C9_TypoColumnFiltered ==
    Returned("remove_invalid_rows") =>
        \A c \in 1..ncols(df_in) :
            df_in.columns[c] = quanitity =>
                /\ df.columns[c] = quantity
                /\ ~has_column(df, quanitity)
                /\ IsNumeric(df.dtypes[c])
                /\ \A k \in 1..nrows(df) :
                      df.data[c][k].kind = "num" /\ df.data[c][k].n >= 0
                /\ \A r \in 1..nrows(df_in) :
                      ~ParsesNonNegative(df_in.data[c][r]) =>
                          df_in.index[r] \notin Range(df.index)

C9_Witness ==
    /\ Returned("remove_invalid_rows")
    /\ df_in.columns[1] = quanitity
    /\ df_in.dtypes[1] = "object"
    /\ df_in.data[1] = <<Str(<<"-","1">>), Str(<<"0">>), Str(<<"a","b","c">>)>>
    /\ df.columns[1] = quantity
    /\ df.index = <<1>>

\* C10 as claimed: the typo correction changes only a column named exactly
\* quanitity
C10_OnlyExactName ==
    Acted("remove_invalid_rows") =>
        /\ ncols(df) = ncols(df_in)
        /\ \A c \in 1..ncols(df_in) :
              df_in.columns[c] # quanitity => df.columns[c] = df_in.columns[c]

\* where quanitity occurs in a label
Occurrences(name) ==
    {p \in 1..(Len(name) - Len(quanitity) + 1) :
        SubSeq(name, p, p + Len(quanitity) - 1) = quanitity}

\* out is the label with the fifth letter of every occurrence of quanitity
\* taken out
TypoFixed(in, out) ==
    LET gone == {p + 4 : p \in Occurrences(in)}
        kept == positions_from(1, Len(in), (1..Len(in)) \ gone)
    IN  out = [k \in 1..Len(kept) |-> in[kept[k]]]

\* C10 as amended: the typo correction replaces every occurrence of
\* quanitity in every column name by quantity; a name that does not contain
\* quanitity is unchanged, and the number and order of the columns is
\* unchanged
C10_EveryOccurrence ==
    Acted("remove_invalid_rows") =>
        /\ ncols(df) = ncols(df_in)
        /\ \A c \in 1..ncols(df_in) :
              /\ TypoFixed(df_in.columns[c], df.columns[c])
              /\ Occurrences(df_in.columns[c]) = {} =>
                    df.columns[c] = df_in.columns[c]

C10_Witness ==
    /\ Returned("remove_invalid_rows")
    /\ df_in.columns = <<<<"q","u","a","n","i","t","i","t","y","_","s","o","l","d">>, price>>
    /\ df.columns = <<<<"q","u","a","n","t","i","t","y","_","s","o","l","d">>, price>>
    /\ nrows(df) = 2

====
